---- MODULE Spec2Model ----
(***************************************************************************)
(* Authorization and identity model of the fitness-tracker REST backend    *)
(* (Amproids/cse341-project-2): the token middleware, the users routes,    *)
(* the workouts routes and the GitHub OAuth resolver, over a document      *)
(* store holding the collections `users` and `workouts`.                   *)
(*                                                                         *)
(* Every handler is an async function: it runs atomically up to its next   *)
(* awaited store call, so each action below is one store call together     *)
(* with the synchronous code that follows it.  Requests in flight are held *)
(* in `reqs`; `resp` is the response written by the step just taken.       *)
(*                                                                         *)
(* Strings whose letter case matters (emails, GitHub usernames) are        *)
(* sequences of characters; "@ex.com" and "@github.local" stand for the    *)
(* (lower-case) domain part as one symbol.                                 *)
(***************************************************************************)
EXTENDS Integers, Sequences, FiniteSets, TLC

\* ------------------------------------------------------------- bounds
MaxUsers == 3        \* accounts ever stored (ObjectIds are never reused)
MaxWorkouts == 2     \* workouts ever stored
MaxTokens == 1       \* tokens the clients hold at a time
MaxTime == 3         \* clock ticks, one tick = one hour
MaxInFlight == 2     \* requests between two awaits at the same time

\* jwt.sign(..., { expiresIn: '2h' }), in clock ticks (hours)
ExpiresIn == 2

VARIABLES users, nextUserId, workouts, nextWorkoutId, tokens, now, reqs, resp

vars == <<users, nextUserId, workouts, nextWorkoutId, tokens, now, reqs, resp>>
store == <<users, nextUserId, workouts, nextWorkoutId>>

Slots == 1..MaxInFlight

\* ------------------------------------------------------------- strings
LowerChar(c) ==
    CASE c = "A" -> "a"
      [] c = "B" -> "b"
      [] c = "R" -> "r"
      [] OTHER -> c

\* String.prototype.toLowerCase
toLowerCase(s) == [i \in DOMAIN s |-> LowerChar(s[i])]

RECURSIVE trimStart(_)
trimStart(s) == IF s # <<>> /\ Head(s) = " " THEN trimStart(Tail(s)) ELSE s

RECURSIVE trimEnd(_)
trimEnd(s) ==
    IF s # <<>> /\ s[Len(s)] = " " THEN trimEnd(SubSeq(s, 1, Len(s) - 1)) ELSE s

\* String.prototype.trim
trim(s) == trimEnd(trimStart(s))

\* normalizeEmail: email ? email.toLowerCase().trim() : ''
normalizeEmail(email) == IF email = <<>> THEN <<>> ELSE trim(toLowerCase(email))

\* validateEmail: the regular expression admits no blank and needs a domain
validateEmail(email) ==
    /\ email # <<>>
    /\ \A i \in DOMAIN email : email[i] # " "
    /\ Len(email) >= 2
    /\ email[Len(email)] \in {"@ex.com", "@github.local"}
    /\ \A i \in 1..(Len(email) - 1) : email[i] \notin {"@ex.com", "@github.local"}

\* Two strings equal ignoring letter case
SameIgnoringCase(a, b) == toLowerCase(a) = toLowerCase(b)

\* ------------------------------------------------------------- passwords
\* bcrypt.hash(password, saltRounds): a one-way image of the password
bcryptHash(password) == <<"bcrypt", password>>

\* bcrypt.compare(password, hash) on a stored hash
bcryptCompare(password, hash) == hash = <<"bcrypt", password>>

\* ------------------------------------------------------------- tokens
JwtSecret == "JWT_SECRET"

\* jwt.sign(tokenPayload, jwtSecret, { expiresIn: '2h', ... }) at time t
jwtSign(userId, email, role, t) ==
    [userId |-> userId, email |-> email, role |-> role,
     iat |-> t, exp |-> t + ExpiresIn, sig |-> JwtSecret]

\* fault injection: jwt.verify called with { ignoreExpiration: true }
jwtVerifyIgnoreExpiration(word, t) ==
    /\ Len(word) = 1
    /\ word[1].k = "jwt"
    /\ word[1].t[1].sig = JwtSecret

\* jwt.verify(token, jwtSecret): the word must be one well-formed token,
\* signed with the secret, and the clock must be before exp
jwtVerify(word, t) ==
    /\ Len(word) = 1
    /\ word[1].k = "jwt"
    /\ word[1].t[1].sig = JwtSecret
    /\ t < word[1].t[1].exp

\* header atoms
Sp == [k |-> " ", t |-> <<>>]
Wd(w) == [k |-> w, t |-> <<>>]
Jwt(tok) == [k |-> "jwt", t |-> <<tok>>]
\* req.headers['authorization'] when the header is not sent
Undefined == <<[k |-> "undefined", t |-> <<>>]>>

\* String.prototype.split(' '): the words between single spaces
RECURSIVE split(_)
split(h) ==
    IF h = <<>> THEN << <<>> >>
    ELSE LET rest == split(SubSeq(h, 1, Len(h) - 1))
             last == h[Len(h)]
         IN  IF last = Sp
             THEN Append(rest, <<>>)
             ELSE [rest EXCEPT ![Len(rest)] = Append(@, last)]

\* fault injection: the last word of the header instead of the second
extractTokenLast(authHeader) ==
    IF authHeader = Undefined \/ authHeader = <<>> THEN <<>>
    ELSE split(authHeader)[Len(split(authHeader))]

\* authHeader && authHeader.split(' ')[1]   (<<>> when falsy)
extractToken(authHeader) ==
    IF authHeader = Undefined \/ authHeader = <<>> THEN <<>>
    ELSE IF Len(split(authHeader)) >= 2 THEN split(authHeader)[2] ELSE <<>>

\* the claims jwt.verify hands to req.user
Claims(tok) == [userId |-> tok.userId, email |-> tok.email, role |-> tok.role]

\* fault injection: a middleware that also looks the account up in the store
\* and refuses a token whose account is gone, inactive or has another role
authenticateTokenStored(authHeader) ==
    LET token == extractToken(authHeader)
    IN  IF token = <<>>
        THEN [ok |-> FALSE, status |-> 401, error |-> "Access token required", user |-> <<>>]
        ELSE IF \/ ~jwtVerify(token, now)
                \/ token[1].t[1].userId \notin DOMAIN users
                \/ ~users[token[1].t[1].userId].isActive
                \/ users[token[1].t[1].userId].role # token[1].t[1].role
        THEN [ok |-> FALSE, status |-> 403, error |-> "Invalid or expired token", user |-> <<>>]
        ELSE [ok |-> TRUE, status |-> 0, error |-> "", user |-> <<Claims(token[1].t[1])>>]

\* middleware authenticateToken: ok and req.user, or the status it answers
authenticateToken(authHeader) ==
    LET token == extractToken(authHeader)
    IN  IF token = <<>>
        THEN [ok |-> FALSE, status |-> 401, error |-> "Access token required", user |-> <<>>]
        ELSE IF ~jwtVerify(token, now)
        THEN [ok |-> FALSE, status |-> 403, error |-> "Invalid or expired token", user |-> <<>>]
        ELSE [ok |-> TRUE, status |-> 0, error |-> "", user |-> <<Claims(token[1].t[1])>>]

\* ------------------------------------------------------------- store
\* The account the deployment is seeded with (AUTO_ADMIN_EMAIL / AUTO_ADMIN_PASSWORD)
AdminEmail == <<"r", "@ex.com">>
AdminPassword == "pa"
SeedAdmin ==
    [firstName |-> <<"Root">>, lastName |-> <<"Admin">>, email |-> AdminEmail,
     emailVerified |-> FALSE,
     password |-> bcryptHash(AdminPassword), role |-> "admin",
     isActive |-> TRUE, githubId |-> <<>>, githubUsername |-> <<>>]

\* a field of a request body; <<>> stands for undefined
Field(body, f) == IF f \in DOMAIN body THEN body[f] ELSE <<>>
\* a stored document together with its _id
Doc(i) == [_id |-> i] @@ users[i]
\* projection { f: 1, ... }
Include(doc, fields) == [f \in DOMAIN doc \cap fields |-> doc[f]]
\* projection { f: 0, ... }
Exclude(doc, fields) == [f \in DOMAIN doc \ fields |-> doc[f]]
\* updateOne's { $set: updateData } on one document
Set(doc, upd) ==
    [f \in DOMAIN doc \cup DOMAIN upd |-> IF f \in DOMAIN upd THEN upd[f] ELSE doc[f]]

Idle == [op |-> "idle"]
NoResp == [route |-> "none", status |-> 0, error |-> ""]

\* fault injection: findOne with an empty filter
FindAny(id) == DOMAIN users

\* db.collection('users').findOne({ _id: id }): the ids it can return
FindById(id) == {i \in DOMAIN users : i = id}
\* db.collection('users').findOne({ email: e }): exact, case-sensitive match
FindByEmail(e) == {i \in DOMAIN users : users[i].email = e}
\* db.collection('users').findOne({ email: e, _id: { $ne: id } })
FindByEmailNot(e, id) == {i \in DOMAIN users : users[i].email = e /\ i # id}
\* fault injection: the lookup by provider id finds nothing
FindNoGithubId(g) == {}

\* db.collection('users').findOne({ githubId: g })
FindByGithubId(g) == {i \in DOMAIN users : users[i].githubId = <<g>>}

\* fault injection: an insert that a unique index on githubId would refuse
InsertUserUniqueGithubId(doc) ==
    IF doc.githubId # <<>> /\ \E i \in DOMAIN users : users[i].githubId = doc.githubId
    THEN users
    ELSE [i \in DOMAIN users \cup {nextUserId} |->
             IF i = nextUserId THEN doc ELSE users[i]]

\* insertOne: the document is stored under a fresh ObjectId
InsertUser(doc) == [i \in DOMAIN users \cup {nextUserId} |->
                        IF i = nextUserId THEN doc ELSE users[i]]
\* deleteOne({ _id: id })
RemoveUser(id) == [i \in DOMAIN users \ {id} |-> users[i]]
InsertWorkout(doc) == [i \in DOMAIN workouts \cup {nextWorkoutId} |->
                        IF i = nextWorkoutId THEN doc ELSE workouts[i]]
RemoveWorkout(id) == [i \in DOMAIN workouts \ {id} |-> workouts[i]]

\* requests in flight that may still insert an account
Creating == {s \in Slots : reqs[s].op \in {"register", "github"}}
RoomForUser == nextUserId + Cardinality(Creating) <= MaxUsers
CreatingWorkout == {s \in Slots : reqs[s].op = "postWorkout"}
RoomForWorkout == nextWorkoutId + Cardinality(CreatingWorkout) <= MaxWorkouts
\* a slot is taken by the next request when the ones before it are busy
FreeSlot(s) == reqs[s] = Idle /\ \A t \in Slots : t < s => reqs[t] # Idle

Init ==
    /\ users = (1 :> SeedAdmin)
    /\ nextUserId = 2
    /\ workouts = <<>>
    /\ nextWorkoutId = 1
    /\ tokens = {}
    /\ now = 0
    /\ reqs = [s \in Slots |-> Idle]
    /\ resp = NoResp

\* ------------------------------------------------------------- authorization
\* fault injection: ObjectIds compared by reference, which never match
isOwnerByReference(resourceOwnerId, requestingUserId) == FALSE
\* fault injection: any role claim taken for an administrator's
isAdminAnyRole(user) == user.role \in {"admin", "user"}

\* const isOwner = userId.equals(requestingUserId)
isOwner(resourceOwnerId, requestingUserId) == resourceOwnerId = requestingUserId
\* const isAdmin = req.user.role === 'admin'
isAdmin(user) == user.role = "admin"

\* the answer of authenticateToken when it does not call next()
Rejected(route, h, auth) ==
    [route |-> route, status |-> auth.status, error |-> auth.error, hdr |-> h]

\* ------------------------------------------------------------- POST /users
\* validation, normalizeEmail, duplicate check (findOne by email)
RegisterStart(s, body) ==
  LET email == body.email
      password == body.password
  IN
    /\ FreeSlot(s)
    /\ UNCHANGED <<store, tokens, now>>
    /\ IF ~validateEmail(email)
       THEN /\ resp' = [route |-> "POST /users", status |-> 400,
                        error |-> "Validation failed", email |-> email]
            /\ UNCHANGED reqs
       ELSE IF FindByEmail(normalizeEmail(email)) # {}
       THEN /\ resp' = [route |-> "POST /users", status |-> 409,
                        error |-> "Email already exists", email |-> email]
            /\ UNCHANGED reqs
       ELSE /\ RoomForUser
            /\ reqs' = [reqs EXCEPT ![s] =
                          [op |-> "register", given |-> email, body |-> body,
                           email |-> normalizeEmail(email), password |-> password]]
            /\ resp' = NoResp

\* fault injection: the role of a new account taken from the request body
NewUserRoleFromBody(body) ==
    IF Field(body, "role") = <<>> THEN "user" ELSE body.role[1]

\* role: 'user' (the body's role is not extracted)
NewUserRole(body) == "user"

\* bcrypt.hash, then insertOne(user)
RegisterInsert(s) ==
    /\ reqs[s].op = "register"
    /\ users' = InsertUser([firstName |-> reqs[s].body.firstName,
                            lastName |-> reqs[s].body.lastName,
                            emailVerified |-> FALSE,
                            email |-> reqs[s].email,
                            password |-> bcryptHash(reqs[s].password),
                            role |-> NewUserRole(reqs[s].body), isActive |-> TRUE,
                            githubId |-> <<>>, githubUsername |-> <<>>])
    /\ nextUserId' = nextUserId + 1
    /\ reqs' = [reqs EXCEPT ![s] = Idle]
    /\ resp' = [route |-> "POST /users", status |-> 201, error |-> "",
                email |-> reqs[s].given, password |-> reqs[s].password,
                id |-> nextUserId, sent |-> reqs[s].body]
    /\ UNCHANGED <<workouts, nextWorkoutId, tokens, now>>

\* ------------------------------------------------------------- POST /users/login
\* validateUserForLogin
validateUserForLogin(email, password) ==
    email # <<>> /\ validateEmail(email) /\ password # ""

LoginResp(email, password, found, status, error, token) ==
    [route |-> "POST /users/login", status |-> status, error |-> error,
     email |-> email, password |-> password, found |-> found, token |-> token]

\* the body of the handler once findOne has returned the document i (or none)
LoginAnswer(email, password, found) ==
    IF found = <<>>
    THEN LoginResp(email, password, found, 401, "Invalid email or password", <<>>)
    ELSE LET u == users[found[1]]
         IN  IF ~u.isActive
             THEN LoginResp(email, password, found, 401, "Account is deactivated", <<>>)
             ELSE IF u.password = <<>>
             \* bcrypt.compare rejects a missing hash; the catch block answers
             THEN LoginResp(email, password, found, 500, "Failed to login", <<>>)
             ELSE IF ~bcryptCompare(password, u.password)
             THEN LoginResp(email, password, found, 401, "Invalid email or password", <<>>)
             ELSE LoginResp(email, password, found, 200, "",
                            <<jwtSign(found[1], u.email, u.role, now)>>)
                    @@ [body |-> <<[id |-> found[1], firstName |-> u.firstName,
                                    lastName |-> u.lastName,
                                    email |-> u.email, role |-> u.role]>>]

\* findOne({ email: normalizedEmail }) returns one of the matching documents
Login(email, password) ==
    /\ UNCHANGED <<store, tokens, now, reqs>>
    /\ IF ~validateUserForLogin(email, password)
       THEN resp' = LoginResp(email, password, <<>>, 400, "Validation failed", <<>>)
       ELSE \E found \in IF FindByEmail(normalizeEmail(email)) = {} THEN {<<>>}
                         ELSE {<<i>> : i \in FindByEmail(normalizeEmail(email))} :
              resp' = LoginAnswer(email, password, found)

\* ------------------------------------------------------------- GET /users
\* fault injection: the commented-out email: 1 of the projection switched on
PublicFieldsWithEmail(i) ==
    Include(Doc(i), {"firstName", "lastName", "email", "gender", "createdAt",
                     "isTestUser", "_id"})

\* projection { firstName: 1, lastName: 1, gender: 1, createdAt: 1, isTestUser: 1, _id: 1 }
PublicFields(i) ==
    Include(Doc(i), {"firstName", "lastName", "gender", "createdAt", "isTestUser", "_id"})

GetUsers(h) ==
    LET auth == authenticateToken(h)
    IN  /\ UNCHANGED <<store, tokens, now, reqs>>
        /\ IF ~auth.ok THEN resp' = Rejected("GET /users", h, auth)
           ELSE resp' = [route |-> "GET /users", status |-> 200, error |-> "", hdr |-> h,
                         user |-> auth.user[1],
                         body |-> {PublicFields(i) : i \in DOMAIN users}]

\* ------------------------------------------------------------- GET /users/:id
\* fault injection: the document read without a projection
WholeDocument(i) == Doc(i)

\* projection { password: 0 }
WithoutPassword(i) == Exclude(Doc(i), {"password"})

\* the answer of a route on /users/:id that ends at its first store call
UserResp(route, h, user, id, status, error) ==
    [route |-> route, status |-> status, error |-> error, hdr |-> h,
     user |-> user, id |-> id, existed |-> id \in DOMAIN users]

\* findOne by id, then the owner-or-admin check
GetUserStart(s, h, id) ==
    LET auth == authenticateToken(h)
        route == "GET /users/:id"
    IN  /\ FreeSlot(s)
        /\ UNCHANGED <<store, tokens, now>>
        /\ IF ~auth.ok
           THEN resp' = Rejected(route, h, auth) /\ UNCHANGED reqs
           ELSE LET user == auth.user[1]
                IN  IF FindById(id) = {}
                    THEN /\ resp' = UserResp(route, h, user, id, 404, "User not found")
                         /\ UNCHANGED reqs
                    ELSE IF ~isOwner(id, user.userId) /\ ~isAdmin(user)
                    THEN /\ resp' = UserResp(route, h, user, id, 403,
                                      "Access denied. You can only view your own profile.")
                         /\ UNCHANGED reqs
                    ELSE /\ reqs' = [reqs EXCEPT ![s] =
                                       [op |-> "getUser", id |-> id, user |-> user]]
                         /\ resp' = NoResp

\* the second findOne, with the projection; null when the account is gone
GetUserProject(s) ==
    /\ reqs[s].op = "getUser"
    /\ UNCHANGED <<store, tokens, now>>
    /\ reqs' = [reqs EXCEPT ![s] = Idle]
    /\ resp' = [route |-> "GET /users/:id", status |-> 200, error |-> "",
                user |-> reqs[s].user, id |-> reqs[s].id,
                existed |-> TRUE,
                body |-> IF reqs[s].id \in DOMAIN users
                         THEN <<WithoutPassword(reqs[s].id)>> ELSE <<>>]

\* ------------------------------------------------------------- PUT /users/:id
\* validateUserForUpdate on the fields the model keeps
validateUserForUpdate(body) == body.email = <<>> \/ validateEmail(body.email[1])

\* fault injection: every field of the body that names a stored one is set
updateDataAnyField(body) ==
    [f \in {g \in {"firstName", "role", "isActive", "password"} : Field(body, g) # <<>>} |->
        body[f][1]]

\* const updateData = {...}: the fields destructured from the body that are
\* not undefined (email is added after its duplicate check)
updateData(body) ==
    [f \in {g \in {"firstName"} : Field(body, g) # <<>>} |-> body[f][1]]

\* findOne by id, owner-or-admin check, validation
PutUserStart(s, h, id, body) ==
    LET auth == authenticateToken(h)
        route == "PUT /users/:id"
    IN  /\ FreeSlot(s)
        /\ UNCHANGED <<store, tokens, now>>
        /\ IF ~auth.ok
           THEN resp' = Rejected(route, h, auth) /\ UNCHANGED reqs
           ELSE LET user == auth.user[1]
                IN  IF FindById(id) = {}
                    THEN /\ resp' = UserResp(route, h, user, id, 404, "User not found")
                         /\ UNCHANGED reqs
                    ELSE IF ~isOwner(id, user.userId) /\ ~isAdmin(user)
                    THEN /\ resp' = UserResp(route, h, user, id, 403,
                                      "Access denied. You can only update your own profile.")
                         /\ UNCHANGED reqs
                    ELSE IF ~validateUserForUpdate(body)
                    THEN /\ resp' = UserResp(route, h, user, id, 400, "Validation failed")
                         /\ UNCHANGED reqs
                    ELSE /\ reqs' = [reqs EXCEPT ![s] =
                                       [op |-> "putUser",
                                        pc |-> IF body.email = <<>> THEN "update" ELSE "checkEmail",
                                        id |-> id, user |-> user, body |-> body,
                                        set |-> updateData(body),
                                        given |-> body.email, email |-> <<>>]]
                         /\ resp' = NoResp

\* findOne({ email: normalizedEmail, _id: { $ne: userId } })
PutUserCheckEmail(s) ==
    LET r == reqs[s]
        normalizedEmail == normalizeEmail(r.given[1])
    IN  /\ r.op = "putUser" /\ r.pc = "checkEmail"
        /\ UNCHANGED <<store, tokens, now>>
        /\ IF FindByEmailNot(normalizedEmail, r.id) # {}
           THEN /\ resp' = [route |-> "PUT /users/:id", status |-> 409,
                            error |-> "Email already exists", user |-> r.user, id |-> r.id, existed |-> TRUE,
                            email |-> r.given[1]]
                /\ reqs' = [reqs EXCEPT ![s] = Idle]
           ELSE /\ reqs' = [reqs EXCEPT ![s] =
                              [r EXCEPT !.pc = "update", !.email = <<normalizedEmail>>]]
                /\ resp' = NoResp

\* updateOne({ _id: userId }, { $set: updateData })
PutUserUpdate(s) ==
    LET r == reqs[s]
    IN  /\ r.op = "putUser" /\ r.pc = "update"
        /\ UNCHANGED <<nextUserId, workouts, nextWorkoutId, tokens, now>>
        /\ reqs' = [reqs EXCEPT ![s] = Idle]
        /\ IF r.id \notin DOMAIN users
           THEN /\ resp' = [route |-> "PUT /users/:id", status |-> 404,
                            error |-> "User not found", user |-> r.user, id |-> r.id, existed |-> TRUE]
                /\ UNCHANGED users
           ELSE /\ users' = [users EXCEPT ![r.id] =
                               Set(@, IF r.email = <<>> THEN r.set
                                      ELSE r.set @@ [email |-> r.email[1]])]
                /\ resp' = [route |-> "PUT /users/:id", status |-> 200, error |-> "",
                            user |-> r.user, id |-> r.id, sent |-> r.body,
                            existed |-> TRUE, email |-> r.given]

\* ------------------------------------------------------------- DELETE /users/:id
\* fault injection: the lookup made before the permission check
DeleteUserStartLookupFirst(s, h, id) ==
    LET auth == authenticateToken(h)
        route == "DELETE /users/:id"
    IN  /\ FreeSlot(s)
        /\ UNCHANGED <<store, tokens, now>>
        /\ IF ~auth.ok
           THEN resp' = Rejected(route, h, auth) /\ UNCHANGED reqs
           ELSE LET user == auth.user[1]
                IN  IF FindById(id) = {}
                    THEN /\ resp' = UserResp(route, h, user, id, 404, "User not found")
                         /\ UNCHANGED reqs
                    ELSE IF ~isOwner(id, user.userId) /\ ~isAdmin(user)
                    THEN /\ resp' = UserResp(route, h, user, id, 403,
                                      "Access denied. You can only delete your own account.")
                         /\ UNCHANGED reqs
                    ELSE /\ reqs' = [reqs EXCEPT ![s] =
                                       [op |-> "deleteUser", id |-> id, user |-> user]]
                         /\ resp' = NoResp

\* permission check first, then findOne by id
DeleteUserStart(s, h, id) ==
    LET auth == authenticateToken(h)
        route == "DELETE /users/:id"
    IN  /\ FreeSlot(s)
        /\ UNCHANGED <<store, tokens, now>>
        /\ IF ~auth.ok
           THEN resp' = Rejected(route, h, auth) /\ UNCHANGED reqs
           ELSE LET user == auth.user[1]
                IN  IF ~isOwner(id, user.userId) /\ ~isAdmin(user)
                    THEN /\ resp' = UserResp(route, h, user, id, 403,
                                      "Access denied. You can only delete your own account.")
                         /\ UNCHANGED reqs
                    ELSE IF FindById(id) = {}
                    THEN /\ resp' = UserResp(route, h, user, id, 404, "User not found")
                         /\ UNCHANGED reqs
                    ELSE /\ reqs' = [reqs EXCEPT ![s] =
                                       [op |-> "deleteUser", id |-> id, user |-> user]]
                         /\ resp' = NoResp

\* fault injection: a delete that also removes the account's workouts
DeleteUserDeleteCascade(s) ==
    LET r == reqs[s]
    IN  /\ r.op = "deleteUser"
        /\ users' = RemoveUser(r.id)
        /\ workouts' = [w \in {v \in DOMAIN workouts : workouts[v].userId # r.id} |->
                          workouts[w]]
        /\ reqs' = [reqs EXCEPT ![s] = Idle]
        /\ resp' = [route |-> "DELETE /users/:id", status |-> 200, error |-> "",
                    user |-> r.user, id |-> r.id, existed |-> TRUE]
        /\ UNCHANGED <<nextUserId, nextWorkoutId, tokens, now>>

\* deleteOne({ _id: userId }); the result is not looked at
DeleteUserDelete(s) ==
    LET r == reqs[s]
    IN  /\ r.op = "deleteUser"
        /\ users' = RemoveUser(r.id)
        /\ reqs' = [reqs EXCEPT ![s] = Idle]
        /\ resp' = [route |-> "DELETE /users/:id", status |-> 200, error |-> "",
                    user |-> r.user, id |-> r.id, existed |-> TRUE]
        /\ UNCHANGED <<nextUserId, workouts, nextWorkoutId, tokens, now>>

\* ------------------------------------------------------------- PATCH /users/:id/role
validRoles == {"user", "admin"}

\* admin check, role validation, findOne by id, self-demotion check
PatchRoleStart(s, h, id, role) ==
    LET auth == authenticateToken(h)
        route == "PATCH /users/:id/role"
    IN  /\ FreeSlot(s)
        /\ UNCHANGED <<store, tokens, now>>
        /\ IF ~auth.ok
           THEN resp' = Rejected(route, h, auth) /\ UNCHANGED reqs
           ELSE LET user == auth.user[1]
                IN  IF user.role # "admin"
                    THEN /\ resp' = UserResp(route, h, user, id, 403,
                                      "Access denied. Admin privileges required.")
                                      @@ [asked |-> role]
                         /\ UNCHANGED reqs
                    ELSE IF role \notin validRoles
                    THEN /\ resp' = UserResp(route, h, user, id, 400, "Invalid role")
                                      @@ [asked |-> role]
                         /\ UNCHANGED reqs
                    ELSE IF FindById(id) = {}
                    THEN /\ resp' = UserResp(route, h, user, id, 404, "User not found")
                                      @@ [asked |-> role]
                         /\ UNCHANGED reqs
                    ELSE IF isOwner(id, user.userId) /\ role # "admin"
                    THEN /\ resp' = UserResp(route, h, user, id, 400,
                                      "Cannot change your own admin role")
                                      @@ [asked |-> role]
                         /\ UNCHANGED reqs
                    ELSE /\ reqs' = [reqs EXCEPT ![s] =
                                       [op |-> "patchRole", id |-> id, role |-> role,
                                        user |-> user]]
                         /\ resp' = NoResp

\* updateOne({ _id: userId }, { $set: { role } })
PatchRoleUpdate(s) ==
    LET r == reqs[s]
    IN  /\ r.op = "patchRole"
        /\ UNCHANGED <<nextUserId, workouts, nextWorkoutId, tokens, now>>
        /\ reqs' = [reqs EXCEPT ![s] = Idle]
        /\ IF r.id \notin DOMAIN users
           THEN /\ resp' = [route |-> "PATCH /users/:id/role", status |-> 404,
                            error |-> "User not found", user |-> r.user, id |-> r.id,
                            existed |-> TRUE, asked |-> r.role]
                /\ UNCHANGED users
           ELSE /\ users' = [users EXCEPT ![r.id].role = r.role]
                /\ resp' = [route |-> "PATCH /users/:id/role", status |-> 200,
                            error |-> "", user |-> r.user, id |-> r.id,
                            existed |-> TRUE, asked |-> r.role, newRole |-> r.role]

\* ------------------------------------------------------------- GET /users/profile/me
ProfileMe(h) ==
    LET auth == authenticateToken(h)
        route == "GET /users/profile/me"
    IN  /\ UNCHANGED <<store, tokens, now, reqs>>
        /\ IF ~auth.ok THEN resp' = Rejected(route, h, auth)
           ELSE LET user == auth.user[1]
                IN  IF FindById(user.userId) = {}
                    THEN resp' = UserResp(route, h, user, user.userId, 404, "User not found")
                    ELSE resp' = UserResp(route, h, user, user.userId, 200, "")
                                   @@ [body |-> <<WithoutPassword(user.userId)>>]

\* ------------------------------------------------------------- GET /workouts
\* the answer of a route on /workouts/:id that ends at its first store call
WorkoutResp(route, h, user, id, status, error) ==
    [route |-> route, status |-> status, error |-> error, hdr |-> h,
     user |-> user, id |-> id, existed |-> id \in DOMAIN workouts,
     owner |-> IF id \in DOMAIN workouts THEN <<workouts[id].userId>> ELSE <<>>]

\* fault injection: req.query.userId honoured for every caller
ListQueryFromRequest(user, queryUserId) ==
    IF queryUserId # <<>> THEN queryUserId ELSE <<user.userId>>

\* query.userId: the requester for a non-admin, req.query.userId for an admin
ListQuery(user, queryUserId) ==
    IF ~isAdmin(user) THEN <<user.userId>> ELSE queryUserId

\* find(query) and countDocuments(query), within the first page
GetWorkouts(h, queryUserId) ==
    LET auth == authenticateToken(h)
        route == "GET /workouts"
    IN  /\ UNCHANGED <<store, tokens, now, reqs>>
        /\ IF ~auth.ok THEN resp' = Rejected(route, h, auth)
           ELSE LET user == auth.user[1]
                    query == ListQuery(user, queryUserId)
                IN  resp' = [route |-> route, status |-> 200, error |-> "", hdr |-> h,
                             user |-> user, query |-> queryUserId,
                             body |-> {w \in DOMAIN workouts :
                                         query = <<>> \/ workouts[w].userId = query[1]}]

\* ------------------------------------------------------------- GET /workouts/:id
\* the handler's answer to an authenticated caller: findOne, then the check
GetWorkoutAnswer(h, user, id) ==
    LET route == "GET /workouts/:id"
    IN  IF id \notin DOMAIN workouts
        THEN WorkoutResp(route, h, user, id, 404, "Workout not found")
        ELSE IF ~isOwner(workouts[id].userId, user.userId) /\ ~isAdmin(user)
        THEN WorkoutResp(route, h, user, id, 403,
                         "Access denied. You can only view your own workouts.")
        ELSE WorkoutResp(route, h, user, id, 200, "") @@ [body |-> <<workouts[id]>>]

GetWorkout(h, id) ==
    LET auth == authenticateToken(h)
    IN  /\ UNCHANGED <<store, tokens, now, reqs>>
        /\ IF ~auth.ok THEN resp' = Rejected("GET /workouts/:id", h, auth)
           ELSE resp' = GetWorkoutAnswer(h, auth.user[1], id)

\* ------------------------------------------------------------- POST /workouts
\* owner-or-admin check on the declared owner, then findOne of the target account
PostWorkoutStart(s, h, body) ==
    LET auth == authenticateToken(h)
        route == "POST /workouts"
    IN  /\ FreeSlot(s)
        /\ UNCHANGED <<store, tokens, now>>
        /\ IF ~auth.ok
           THEN resp' = Rejected(route, h, auth) /\ UNCHANGED reqs
           ELSE LET user == auth.user[1]
                IN  IF ~isOwner(body.userId, user.userId) /\ ~isAdmin(user)
                    THEN /\ resp' = [route |-> route, status |-> 403, hdr |-> h,
                                     error |-> "Access denied. You can only create workouts for yourself.",
                                     user |-> user, body |-> body]
                         /\ UNCHANGED reqs
                    ELSE IF FindById(body.userId) = {}
                    THEN /\ resp' = [route |-> route, status |-> 400, hdr |-> h,
                                     error |-> "Target user does not exist",
                                     user |-> user, body |-> body]
                         /\ UNCHANGED reqs
                    ELSE /\ RoomForWorkout
                         /\ reqs' = [reqs EXCEPT ![s] =
                                       [op |-> "postWorkout", body |-> body,
                                        user |-> user]]
                         /\ resp' = NoResp

\* insertOne(workout)
PostWorkoutInsert(s) ==
    LET r == reqs[s]
    IN  /\ r.op = "postWorkout"
        /\ workouts' = InsertWorkout([userId |-> r.body.userId,
                                      workoutName |-> r.body.workoutName,
                                      createdBy |-> r.user.userId])
        /\ nextWorkoutId' = nextWorkoutId + 1
        /\ reqs' = [reqs EXCEPT ![s] = Idle]
        /\ resp' = [route |-> "POST /workouts", status |-> 201, error |-> "",
                    user |-> r.user, body |-> r.body,
                    id |-> nextWorkoutId]
        /\ UNCHANGED <<users, nextUserId, tokens, now>>

\* ------------------------------------------------------------- PUT /workouts/:id
\* findOne, owner-or-admin check, then the reassignment check
PutWorkoutStart(s, h, id, body) ==
    LET auth == authenticateToken(h)
        route == "PUT /workouts/:id"
    IN  /\ FreeSlot(s)
        /\ UNCHANGED <<store, tokens, now>>
        /\ IF ~auth.ok
           THEN resp' = Rejected(route, h, auth) /\ UNCHANGED reqs
           ELSE LET user == auth.user[1]
                IN  IF id \notin DOMAIN workouts
                    THEN /\ resp' = WorkoutResp(route, h, user, id, 404, "Workout not found")
                                      @@ [body |-> body]
                         /\ UNCHANGED reqs
                    ELSE IF ~isOwner(workouts[id].userId, user.userId) /\ ~isAdmin(user)
                    THEN /\ resp' = WorkoutResp(route, h, user, id, 403,
                                      "Access denied. You can only update your own workouts.")
                                      @@ [body |-> body]
                         /\ UNCHANGED reqs
                    ELSE IF body.userId # <<>> /\ body.userId[1] # workouts[id].userId
                            /\ ~isAdmin(user)
                    THEN /\ resp' = WorkoutResp(route, h, user, id, 403,
                                      "Only admins can reassign workouts to other users.")
                                      @@ [body |-> body]
                         /\ UNCHANGED reqs
                    ELSE /\ reqs' = [reqs EXCEPT ![s] =
                                       [op |-> "putWorkout",
                                        pc |-> IF body.userId # <<>>
                                                  /\ body.userId[1] # workouts[id].userId
                                               THEN "checkTarget" ELSE "update",
                                        id |-> id, body |-> body, user |-> user,
                                        owner |-> <<workouts[id].userId>>]]
                         /\ resp' = NoResp

\* findOne({ _id: newUserId }) of the account the workout is reassigned to
PutWorkoutCheckTarget(s) ==
    LET r == reqs[s]
    IN  /\ r.op = "putWorkout" /\ r.pc = "checkTarget"
        /\ UNCHANGED <<store, tokens, now>>
        /\ IF FindById(r.body.userId[1]) = {}
           THEN /\ resp' = [route |-> "PUT /workouts/:id", status |-> 400,
                            error |-> "Target user does not exist", user |-> r.user, id |-> r.id, existed |-> TRUE,
                            owner |-> r.owner]
                /\ reqs' = [reqs EXCEPT ![s] = Idle]
           ELSE /\ reqs' = [reqs EXCEPT ![s] = [r EXCEPT !.pc = "update"]]
                /\ resp' = NoResp

\* updateOne({ _id: workoutId }, { $set: updateData })
PutWorkoutUpdate(s) ==
    LET r == reqs[s]
    IN  /\ r.op = "putWorkout" /\ r.pc = "update"
        /\ UNCHANGED <<users, nextUserId, nextWorkoutId, tokens, now>>
        /\ reqs' = [reqs EXCEPT ![s] = Idle]
        /\ IF r.id \notin DOMAIN workouts
           THEN /\ resp' = [route |-> "PUT /workouts/:id", status |-> 404,
                            error |-> "Workout not found", user |-> r.user, id |-> r.id, existed |-> TRUE,
                            owner |-> r.owner]
                /\ UNCHANGED workouts
           ELSE /\ workouts' = [workouts EXCEPT ![r.id] =
                      [@ EXCEPT !.userId = IF r.body.userId = <<>> THEN @
                                            ELSE r.body.userId[1],
                                !.workoutName = IF r.body.workoutName = <<>> THEN @
                                                 ELSE r.body.workoutName[1]]]
                /\ resp' = [route |-> "PUT /workouts/:id", status |-> 200, error |-> "",
                            user |-> r.user, id |-> r.id,
                            existed |-> TRUE, owner |-> r.owner]

\* ------------------------------------------------------------- DELETE /workouts/:id
\* findOne first, then the owner-or-admin check
DeleteWorkoutStart(s, h, id) ==
    LET auth == authenticateToken(h)
        route == "DELETE /workouts/:id"
    IN  /\ FreeSlot(s)
        /\ UNCHANGED <<store, tokens, now>>
        /\ IF ~auth.ok
           THEN resp' = Rejected(route, h, auth) /\ UNCHANGED reqs
           ELSE LET user == auth.user[1]
                IN  IF id \notin DOMAIN workouts
                    THEN /\ resp' = WorkoutResp(route, h, user, id, 404, "Workout not found")
                         /\ UNCHANGED reqs
                    ELSE IF ~isOwner(workouts[id].userId, user.userId) /\ ~isAdmin(user)
                    THEN /\ resp' = WorkoutResp(route, h, user, id, 403,
                                      "Access denied. You can only delete your own workouts.")
                         /\ UNCHANGED reqs
                    ELSE /\ reqs' = [reqs EXCEPT ![s] =
                                       [op |-> "deleteWorkout", id |-> id, user |-> user,
                                        owner |-> <<workouts[id].userId>>]]
                         /\ resp' = NoResp

\* deleteOne({ _id: workoutId }); deletedCount 0 answers 404
DeleteWorkoutDelete(s) ==
    LET r == reqs[s]
    IN  /\ r.op = "deleteWorkout"
        /\ UNCHANGED <<users, nextUserId, nextWorkoutId, tokens, now>>
        /\ reqs' = [reqs EXCEPT ![s] = Idle]
        /\ workouts' = RemoveWorkout(r.id)
        /\ resp' = [route |-> "DELETE /workouts/:id",
                    status |-> IF r.id \in DOMAIN workouts THEN 200 ELSE 404,
                    error |-> IF r.id \in DOMAIN workouts THEN "" ELSE "Workout not found",
                    user |-> r.user, id |-> r.id, existed |-> TRUE,
                    owner |-> r.owner]

\* ------------------------------------------------------------- GET /workouts/stats
StatsMe(h) ==
    LET auth == authenticateToken(h)
        route == "GET /workouts/stats/me"
    IN  /\ UNCHANGED <<store, tokens, now, reqs>>
        /\ IF ~auth.ok THEN resp' = Rejected(route, h, auth)
           ELSE resp' = [route |-> route, status |-> 200, error |-> "", hdr |-> h,
                         user |-> auth.user[1],
                         totalWorkouts |-> Cardinality({w \in DOMAIN workouts :
                             workouts[w].userId = auth.user[1].userId})]

StatsUser(h, id) ==
    LET auth == authenticateToken(h)
        route == "GET /workouts/stats/:userId"
    IN  /\ UNCHANGED <<store, tokens, now, reqs>>
        /\ IF ~auth.ok THEN resp' = Rejected(route, h, auth)
           ELSE LET user == auth.user[1]
                IN  IF user.role # "admin"
                    THEN resp' = UserResp(route, h, user, id, 403,
                                   "Access denied. Admin privileges required.")
                    ELSE IF FindById(id) = {}
                    THEN resp' = UserResp(route, h, user, id, 404, "User not found")
                    ELSE resp' = UserResp(route, h, user, id, 200, "")
                                   @@ [totalWorkouts |-> Cardinality({w \in DOMAIN workouts :
                                          workouts[w].userId = id})]

\* ------------------------------------------------------------- GitHub OAuth
\* the identities GitHub can report: id, login name, public emails
Profiles ==
    {[id |-> "gh1", username |-> <<"A">>, emails |-> <<>>,
      displayName |-> <<"Mary", " ", "Ann", " ", "Smith">>],
     [id |-> "gh2", username |-> <<"b">>, emails |-> << <<"A", "@ex.com">> >>,
      displayName |-> <<"Bo", " ", "Lee">>]}

\* String.prototype.split(' ') on a name: the words between single spaces
RECURSIVE splitWords(_)
splitWords(str) ==
    IF str = <<>> THEN << <<>> >>
    ELSE LET rest == splitWords(SubSeq(str, 1, Len(str) - 1))
             last == str[Len(str)]
         IN  IF last = " "
             THEN Append(rest, <<>>)
             ELSE [rest EXCEPT ![Len(rest)] = Append(@, last)]

\* profile.displayName?.split(' ')[0] || profile.username
GithubFirstName(profile) ==
    IF splitWords(profile.displayName)[1] # <<>>
    THEN splitWords(profile.displayName)[1]
    ELSE profile.username

\* profile.displayName?.split(' ')[1] || ''
GithubLastName(profile) ==
    IF Len(splitWords(profile.displayName)) >= 2
    THEN splitWords(profile.displayName)[2]
    ELSE <<>>

\* fault injection: the provider's email looked up as the provider spells it
GithubEmailAsGiven(profile) ==
    IF profile.emails # <<>> /\ profile.emails[1] # <<>>
    THEN profile.emails[1]
    ELSE profile.username \o <<"@github.local">>

\* profile.emails?.[0]?.value?.toLowerCase() || `${profile.username}@github.local`
GithubEmail(profile) ==
    IF profile.emails # <<>> /\ profile.emails[1] # <<>>
    THEN toLowerCase(profile.emails[1])
    ELSE profile.username \o <<"@github.local">>

\* router.get('/github/callback'): jwt.sign over req.user, answered with 200
GithubCallback(profile, id, user, how) ==
    [route |-> "GET /auth/github/callback", status |-> 200, error |-> "",
     profile |-> profile, id |-> id, how |-> how,
     token |-> <<jwtSign(id, user.email, user.role, now)>>,
     body |-> <<[id |-> id, firstName |-> user.firstName,
                 lastName |-> user.lastName, email |-> user.email,
                 role |-> user.role, githubUsername |-> user.githubUsername]>>]

\* findOne({ githubId: profile.id }); a match goes straight to the callback
GithubStart(s, profile) ==
    /\ FreeSlot(s)
    /\ UNCHANGED <<store, now>>
    /\ IF FindByGithubId(profile.id) # {}
       THEN \E i \in FindByGithubId(profile.id) :
              /\ resp' = GithubCallback(profile, i, users[i], "found")
              /\ UNCHANGED <<reqs, tokens>>
       ELSE /\ RoomForUser
            /\ reqs' = [reqs EXCEPT ![s] =
                          [op |-> "github", pc |-> "byEmail", profile |-> profile,
                           email |-> GithubEmail(profile)]]
            /\ resp' = NoResp
            /\ UNCHANGED tokens

\* findOne({ email: email })
GithubByEmail(s) ==
    LET r == reqs[s]
    IN  /\ r.op = "github" /\ r.pc = "byEmail"
        /\ UNCHANGED <<store, tokens, now>>
        /\ resp' = NoResp
        /\ IF FindByEmail(r.email) # {}
           THEN \E i \in FindByEmail(r.email) :
                  reqs' = [reqs EXCEPT ![s] =
                             [r EXCEPT !.pc = "link"] @@ [id |-> i, user |-> users[i]]]
           ELSE reqs' = [reqs EXCEPT ![s] = [r EXCEPT !.pc = "insert"]]

\* updateOne({ _id: user._id }, { $set: { githubId, githubUsername } }); done(null, user)
GithubLink(s) ==
    LET r == reqs[s]
    IN  /\ r.op = "github" /\ r.pc = "link"
        /\ users' = IF r.id \in DOMAIN users
                    THEN [users EXCEPT ![r.id].githubId = <<r.profile.id>>,
                                       ![r.id].githubUsername = r.profile.username]
                    ELSE users
        /\ reqs' = [reqs EXCEPT ![s] = Idle]
        /\ resp' = GithubCallback(r.profile, r.id, r.user, "linked")
        /\ UNCHANGED <<nextUserId, workouts, nextWorkoutId, tokens, now>>

\* insertOne(newUser); done(null, user)
GithubInsert(s) ==
    LET r == reqs[s]
        newUser == [firstName |-> GithubFirstName(r.profile),
                    lastName |-> GithubLastName(r.profile),
                    emailVerified |-> TRUE,
                    email |-> r.email, password |-> <<>>, role |-> "user",
                    isActive |-> TRUE, githubId |-> <<r.profile.id>>,
                    githubUsername |-> r.profile.username]
    IN  /\ r.op = "github" /\ r.pc = "insert"
        /\ users' = InsertUser(newUser)
        /\ nextUserId' = nextUserId + 1
        /\ reqs' = [reqs EXCEPT ![s] = Idle]
        /\ resp' = GithubCallback(r.profile, nextUserId, newUser, "created")
        /\ UNCHANGED <<workouts, nextWorkoutId, tokens, now>>

\* ------------------------------------------------------------- environment
\* the clock
Tick ==
    /\ now < MaxTime
    /\ now' = now + 1
    /\ resp' = NoResp
    /\ UNCHANGED <<store, tokens, reqs>>

\* the store's administrator deactivates an account (no route does)
Deactivate(id) ==
    /\ id \in DOMAIN users
    /\ users[id].isActive
    /\ users' = [users EXCEPT ![id].isActive = FALSE]
    /\ resp' = NoResp
    /\ UNCHANGED <<nextUserId, workouts, nextWorkoutId, tokens, now, reqs>>

\* a client keeps the token of the response it reads
KeepToken ==
    /\ resp # NoResp
    /\ "token" \in DOMAIN resp
    /\ resp.token # <<>>
    /\ Cardinality(tokens) < MaxTokens
    /\ tokens' = tokens \cup {resp.token[1]}
    /\ resp' = NoResp
    /\ UNCHANGED <<store, now, reqs>>

\* a client discards a token
Forget(tok) ==
    /\ tok \in tokens
    /\ tokens' = tokens \ {tok}
    /\ resp' = NoResp
    /\ UNCHANGED <<store, now, reqs>>

\* the response has been read
Flush ==
    /\ resp # NoResp
    /\ resp' = NoResp
    /\ UNCHANGED <<store, tokens, now, reqs>>

\* ------------------------------------------------------------- inputs
UserIds == 1..MaxUsers
WorkoutIds == 1..MaxWorkouts
AliceEmail == <<"a", "@ex.com">>
BobEmail == <<"b", "@ex.com">>
RegisterEmails == {AliceEmail, <<"A", "@ex.com">>,
                   <<"a", "@github.local">>, <<" ", "a", "@ex.com">>}
Passwords == {"p", "q"}
Roles == {"user", "admin", "owner"}

\* a token nobody signed with the secret
ForgedToken == [userId |-> 1, email |-> AdminEmail, role |-> "admin",
                iat |-> 0, exp |-> MaxTime + ExpiresIn, sig |-> "attacker"]

Bearer(tok) == <<Wd("Bearer"), Sp, Jwt(tok)>>
BearerHeaders == {Bearer(t) : t \in tokens}
\* the Authorization headers a client sends: without a token of its own it
\* sends nothing, a bare scheme, garbage or a forgery; with one it sends the
\* token well-formed, bare, after two spaces, or under the scheme Token
Headers ==
    IF tokens = {}
    THEN {Undefined, <<Wd("Bearer")>>, <<Wd("Bearer"), Sp>>,
          <<Wd("Bearer"), Sp, Wd("garbage")>>, Bearer(ForgedToken)}
    ELSE BearerHeaders
         \cup {<<Jwt(t)>> : t \in tokens}
         \cup {<<Wd("Bearer"), Sp, Sp, Jwt(t)>> : t \in tokens}
         \cup {<<Wd("Token"), Sp, Jwt(t)>> : t \in tokens}

\* a store that already holds two registered accounts
Alice == [firstName |-> <<"Al">>, lastName |-> <<"A">>, emailVerified |-> FALSE,
          email |-> AliceEmail, password |-> bcryptHash("p"), role |-> "user",
          isActive |-> TRUE, githubId |-> <<>>, githubUsername |-> <<>>]
Bob == [firstName |-> <<"Bo">>, lastName |-> <<"B">>, emailVerified |-> FALSE,
        email |-> BobEmail, password |-> bcryptHash("q"), role |-> "user",
        isActive |-> TRUE, githubId |-> <<>>, githubUsername |-> <<>>]
SeededLogins == {<<AdminEmail, AdminPassword>>, <<AliceEmail, "p">>, <<BobEmail, "q">>}

InitSeeded ==
    /\ users = <<SeedAdmin, Alice, Bob>>
    /\ nextUserId = 4
    /\ workouts = <<>>
    /\ nextWorkoutId = 1
    /\ tokens = {}
    /\ now = 0
    /\ reqs = [s \in Slots |-> Idle]
    /\ resp = NoResp

\* ------------------------------------------------------------- specifications
\* the response of the last step has been read
Ready == resp = NoResp

\* Accounts: registration, login, profile update and GitHub login, interleaved
NextAccounts ==
    \/ Ready /\ \E s \in Slots, e \in RegisterEmails, p \in Passwords :
            RegisterStart(s, [firstName |-> <<"T">>, lastName |-> <<"U">>, email |-> e, password |-> p])
    \/ Ready /\ \E s \in Slots : RegisterInsert(s)
    \/ Ready /\ \E e \in RegisterEmails \cup {<<"A", "@github.local">>}, p \in Passwords : Login(e, p)
    \/ Ready /\ \E s \in Slots, h \in BearerHeaders, id \in UserIds,
                   e \in {<<>>} \cup {<<x>> : x \in RegisterEmails} :
            PutUserStart(s, h, id, [email |-> e])
    \/ Ready /\ \E s \in Slots : PutUserCheckEmail(s)
    \/ Ready /\ \E s \in Slots : PutUserUpdate(s)
    \/ Ready /\ \E s \in Slots, p \in Profiles : GithubStart(s, p)
    \/ Ready /\ \E s \in Slots : GithubByEmail(s)
    \/ Ready /\ \E s \in Slots : GithubLink(s)
    \/ Ready /\ \E s \in Slots : GithubInsert(s)
    \/ Ready /\ \E id \in UserIds \ {1} : Deactivate(id)
    \/ KeepToken
    \/ Flush
SpecAccounts == Init /\ [][NextAccounts]_vars

\* Authorization on /users/:id, called with the tokens of the seeded accounts
\* bodies of PUT /users/:id: protected fields only, the email only, and the
\* email with the first name and a password
PutEmails ==
    {[email |-> <<>>, role |-> <<"admin">>, isActive |-> <<FALSE>>],
     [email |-> <<<<"A", "@ex.com">>>>],
     [email |-> <<<<"c", "@ex.com">>>>, firstName |-> <<<<"Z">>>>, password |-> <<"x">>]}

Next ==
    \/ Ready /\ \E c \in SeededLogins : Login(c[1], c[2])
    \/ Ready /\ \E s \in Slots, h \in BearerHeaders, id \in UserIds : GetUserStart(s, h, id)
    \/ Ready /\ \E s \in Slots : GetUserProject(s)
    \/ Ready /\ \E s \in Slots, h \in BearerHeaders, id \in UserIds, b \in PutEmails :
            PutUserStart(s, h, id, b)
    \/ Ready /\ \E s \in Slots : PutUserCheckEmail(s)
    \/ Ready /\ \E s \in Slots : PutUserUpdate(s)
    \/ Ready /\ \E s \in Slots, h \in BearerHeaders, id \in UserIds : DeleteUserStart(s, h, id)
    \/ Ready /\ \E s \in Slots : DeleteUserDelete(s)
    \/ Ready /\ \E t \in tokens : Forget(t)
    \/ KeepToken
    \/ Flush
Spec == InitSeeded /\ [][Next]_vars

\* Authorization on /workouts/:id, called with the tokens of the seeded accounts
WorkoutNames == {<<"swim">>}
OwnerIds == {1, 2, MaxUsers + 1}

NextWorkouts ==
    \/ Ready /\ \E c \in SeededLogins : Login(c[1], c[2])
    \/ Ready /\ \E h \in BearerHeaders, id \in WorkoutIds : GetWorkout(h, id)
    \/ Ready /\ \E h \in BearerHeaders, q \in {<<>>} \cup {<<i>> : i \in UserIds} :
            GetWorkouts(h, q)
    \/ Ready /\ \E s \in Slots, h \in BearerHeaders, o \in OwnerIds :
            PostWorkoutStart(s, h, [userId |-> o, workoutName |-> "run"])
    \/ Ready /\ \E s \in Slots : PostWorkoutInsert(s)
    \/ Ready /\ \E s \in Slots, h \in BearerHeaders, id \in WorkoutIds,
                   o \in {<<>>} \cup {<<i>> : i \in OwnerIds}, n \in WorkoutNames :
            PutWorkoutStart(s, h, id, [userId |-> o, workoutName |-> n])
    \/ Ready /\ \E s \in Slots : PutWorkoutCheckTarget(s)
    \/ Ready /\ \E s \in Slots : PutWorkoutUpdate(s)
    \/ Ready /\ \E s \in Slots, h \in BearerHeaders, id \in WorkoutIds : DeleteWorkoutStart(s, h, id)
    \/ Ready /\ \E s \in Slots : DeleteWorkoutDelete(s)
    \/ Ready /\ \E t \in tokens : Forget(t)
    \/ KeepToken
    \/ Flush
SpecWorkouts == InitSeeded /\ [][NextWorkouts]_vars

\* Tokens: every route behind authenticateToken, called with every kind of
\* Authorization header while the clock runs and accounts change
InitToken ==
    /\ users = <<SeedAdmin, Alice>>
    /\ nextUserId = 3
    /\ workouts = <<>>
    /\ nextWorkoutId = 1
    /\ tokens = {}
    /\ now = 0
    /\ reqs = [s \in Slots |-> Idle]
    /\ resp = NoResp

TokenLogins == {<<AdminEmail, AdminPassword>>, <<AliceEmail, "p">>}
TokenProfiles == {p \in Profiles : p.id = "gh2"}
AliceId == 2

\* the token routes are driven one multi-step request at a time
TokenSlots == {1}

NextToken ==
    \/ Ready /\ \E c \in TokenLogins : Login(c[1], c[2])
    \/ Ready /\ \E s \in TokenSlots, p \in TokenProfiles : GithubStart(s, p)
    \/ Ready /\ \E s \in TokenSlots : GithubByEmail(s)
    \/ Ready /\ \E s \in TokenSlots : GithubLink(s)
    \/ Ready /\ \E s \in TokenSlots : GithubInsert(s)
    \/ Ready /\ \E h \in Headers : GetUsers(h)
    \/ Ready /\ \E s \in TokenSlots, h \in Headers : GetUserStart(s, h, AliceId)
    \/ Ready /\ \E s \in TokenSlots : GetUserProject(s)
    \/ Ready /\ \E s \in TokenSlots, h \in Headers : PutUserStart(s, h, AliceId, [email |-> <<>>])
    \/ Ready /\ \E s \in TokenSlots : PutUserUpdate(s)
    \/ Ready /\ \E s \in TokenSlots, h \in Headers : DeleteUserStart(s, h, AliceId)
    \/ Ready /\ \E s \in TokenSlots : DeleteUserDelete(s)
    \/ Ready /\ \E s \in TokenSlots, h \in Headers : PatchRoleStart(s, h, AliceId, "admin")
    \/ Ready /\ \E s \in TokenSlots : PatchRoleUpdate(s)
    \/ Ready /\ \E h \in Headers : ProfileMe(h)
    \/ Ready /\ \E h \in Headers : GetWorkouts(h, <<>>)
    \/ Ready /\ \E h \in Headers : GetWorkout(h, 1)
    \/ Ready /\ \E s \in TokenSlots, h \in Headers :
            PostWorkoutStart(s, h, [userId |-> AliceId, workoutName |-> "run"])
    \/ Ready /\ \E s \in TokenSlots : PostWorkoutInsert(s)
    \/ Ready /\ \E s \in TokenSlots, h \in Headers :
            PutWorkoutStart(s, h, 1, [userId |-> <<>>, workoutName |-> <<"swim">>])
    \/ Ready /\ \E s \in TokenSlots : PutWorkoutUpdate(s)
    \/ Ready /\ \E s \in TokenSlots, h \in Headers : DeleteWorkoutStart(s, h, 1)
    \/ Ready /\ \E s \in TokenSlots : DeleteWorkoutDelete(s)
    \/ Ready /\ \E h \in Headers : StatsMe(h)
    \/ Ready /\ \E h \in Headers : StatsUser(h, AliceId)
    \/ Ready /\ Deactivate(AliceId)
    \/ Ready /\ Tick
    \/ Ready /\ \E t \in tokens : Forget(t)
    \/ KeepToken
    \/ Flush
SpecToken == InitToken /\ [][NextToken]_vars

\* ------------------------------------------------------------- properties
\* the accounts other than id whose email equals e ignoring letter case
SameEmailAs(e, id) ==
    {j \in DOMAIN users : j # id /\ SameIgnoringCase(users[j].email, e)}

\* C6: a login naming, in any letter case, the email of a stored active
\* account that was registered with a password is answered 200 with a token
\* for that account's id, its stored lowercased email and role 'user' when the
\* password is the registered one, and 401 without a token otherwise.
C6_LoginAfterRegistration ==
    (resp.route = "POST /users/login" /\ resp.status # 400) =>
        \A i \in DOMAIN users :
            (/\ users[i].password # <<>>
             /\ users[i].role = "user"
             /\ users[i].isActive
             /\ SameIgnoringCase(resp.email, users[i].email)) =>
                IF users[i].password = bcryptHash(resp.password)
                THEN /\ resp.status = 200
                     /\ resp.token = <<jwtSign(i, toLowerCase(resp.email), "user", now)>>
                ELSE /\ resp.status = 401
                     /\ resp.token = <<>>

\* C7: a login whose email matches no account and a login whose email matches
\* an active account with another password get the same answer: 401,
\* 'Invalid email or password', no token.
C7_LoginHidesExistence ==
    (resp.route = "POST /users/login" /\ resp.status # 400) =>
        LET unknown == resp.found = <<>>
            wrong == /\ resp.found # <<>>
                     /\ users[resp.found[1]].isActive
                     /\ users[resp.found[1]].password # bcryptHash(resp.password)
        IN  (unknown \/ wrong) =>
                /\ resp.status = 401
                /\ resp.error = "Invalid email or password"
                /\ resp.token = <<>>

\* C8: a response of the password login or of the GitHub callback carries a
\* token only for an account that is active when the token is signed.
C8_NoTokenForInactive ==
    (/\ resp.route \in {"POST /users/login", "GET /auth/github/callback"}
     /\ resp.token # <<>>
     /\ resp.token[1].userId \in DOMAIN users) =>
        users[resp.token[1].userId].isActive

\* C9: no two stored accounts have emails that are equal ignoring letter case.
C9_UniqueEmails ==
    \A i \in DOMAIN users : SameEmailAs(users[i].email, i) = {}

\* C10: a registration passes the duplicate check only when no stored account
\* has its email ignoring case, and it inserts only after passing; a profile
\* update passes the check only when no other account has the email ignoring
\* case, is answered 409 with the accounts unchanged otherwise, and an update
\* to the account's own current email is answered 200.
C10_DuplicateEmailRejected ==
    [][\A s \in Slots :
        /\ (reqs[s] = Idle /\ reqs'[s].op = "register") =>
                SameEmailAs(reqs'[s].email, 0) = {}
        /\ (reqs[s].op = "putUser" /\ reqs[s].pc = "checkEmail" /\ reqs'[s] # reqs[s]) =>
                IF SameEmailAs(reqs[s].given[1], reqs[s].id) # {}
                THEN resp'.status = 409 /\ users' = users
                ELSE reqs'[s].op = "putUser" /\ reqs'[s].pc = "update"
        /\ (/\ reqs[s].op = "putUser" /\ reqs[s].pc = "update" /\ reqs'[s] # reqs[s]
            /\ reqs[s].id \in DOMAIN users
            /\ reqs[s].email = <<users[reqs[s].id].email>>) =>
                resp'.status = 200 /\ users' = users
      ]_vars

\* ------------------------------------------------------------- authorization properties
UserIdRoutes == {"GET /users/:id", "PUT /users/:id", "DELETE /users/:id"}
WorkoutIdRoutes == {"GET /workouts/:id", "PUT /workouts/:id", "DELETE /workouts/:id"}

\* C1: a response to an authenticated GET, PUT or DELETE /users/:id whose
\* target existed is 403 exactly when the token's userId differs from the
\* target id and the token's role is not 'admin'; the step answering 403
\* changes no account and leaves no request in flight; an allowed GET is
\* answered 200 and an allowed DELETE is answered 200 with the account gone.
C1_UserOwnerOrAdmin ==
    [][LET r == resp'
       IN  (r.route \in UserIdRoutes /\ "user" \in DOMAIN r /\ r.existed) =>
             LET allowed == r.user.userId = r.id \/ r.user.role = "admin"
             IN  /\ (r.status = 403) <=> ~allowed
                 /\ r.status = 403 => (users' = users /\ reqs' = reqs)
                 /\ (allowed /\ r.route = "GET /users/:id") => r.status = 200
                 /\ (allowed /\ r.route = "DELETE /users/:id") =>
                        (r.status = 200 /\ r.id \notin DOMAIN users')
      ]_vars

\* a caller who is neither the target nor an admin has just been refused
C1_Refused ==
    /\ resp.route \in UserIdRoutes
    /\ "user" \in DOMAIN resp
    /\ resp.status = 403
    /\ resp.id \in DOMAIN users
    /\ resp.user.userId # resp.id
    /\ resp.user.role = "user"

\* the caller of the answer r owns the workout or is an admin
WorkoutAllowed(r) == r.owner = <<r.user.userId>> \/ r.user.role = "admin"
\* the answer r is to a PUT by a non-admin that names another owner
Reassigns(r) ==
    /\ r.route = "PUT /workouts/:id"
    /\ "body" \in DOMAIN r
    /\ r.body.userId # <<>>
    /\ r.body.userId # r.owner
    /\ r.user.role # "admin"

ProtectedRoutes ==
    {"GET /users", "GET /users/:id", "PUT /users/:id", "DELETE /users/:id",
     "PATCH /users/:id/role", "GET /users/profile/me",
     "GET /workouts", "GET /workouts/:id", "POST /workouts", "PUT /workouts/:id",
     "DELETE /workouts/:id", "GET /workouts/stats/me", "GET /workouts/stats/:userId"}

\* the header is absent or nothing but a space or the end follows its first space
NoTokenAfterFirstSpace(h) ==
    \/ h = Undefined
    \/ \A i \in DOMAIN h : h[i] # Sp
    \/ \E i \in DOMAIN h :
          /\ h[i] = Sp
          /\ \A j \in 1..(i - 1) : h[j] # Sp
          /\ (i = Len(h) \/ h[i + 1] = Sp)
\* what follows the first space of the header
Presented(h) == h[1 + CHOOSE i \in DOMAIN h : h[i] = Sp /\ \A j \in 1..(i - 1) : h[j] # Sp]
\* a well-formed token, signed with the secret, not yet expired at time t
GoodToken(a, t) == a.k = "jwt" /\ a.t[1].sig = JwtSecret /\ t < a.t[1].exp
\* the answer was given by the middleware, not by a handler
Unauthenticated(r) ==
    \/ r.status = 401 /\ r.error = "Access token required"
    \/ r.status = 403 /\ r.error = "Invalid or expired token"

\* C3: every answer to a request that carries an Authorization header is on a
\* route behind authenticateToken; it is 401 'Access token required' when no
\* token follows the header's first space, 403 'Invalid or expired token' when
\* what follows is not a well-formed, rightly signed, unexpired token; the step
\* giving either answer changes no account and no workout and starts no handler.
C3_MiddlewareRejects ==
    [][LET r == resp'
       IN  "hdr" \in DOMAIN r =>
             /\ r.route \in ProtectedRoutes
             /\ NoTokenAfterFirstSpace(r.hdr) =>
                    (r.status = 401 /\ r.error = "Access token required")
             /\ (~NoTokenAfterFirstSpace(r.hdr) /\ ~GoodToken(Presented(r.hdr), now)) =>
                    (r.status = 403 /\ r.error = "Invalid or expired token")
             /\ Unauthenticated(r) => (store' = store /\ reqs' = reqs /\ "user" \notin DOMAIN r)
      ]_vars

\* a DELETE carrying an expired token of the workout's owner has been refused
\* and the workout is still stored
C3_ExpiredRefused ==
    /\ resp.route = "DELETE /workouts/:id"
    /\ resp.status = 403 /\ resp.error = "Invalid or expired token"
    /\ 1 \in DOMAIN workouts
    /\ \E t \in tokens : resp.hdr = Bearer(t) /\ now >= t.exp /\ workouts[1].userId = t.userId

\* C4: a token in a login or GitHub callback answer has exp = issue time + 2;
\* a request carrying a token issued at iat as 'Bearer <token>' is accepted
\* with req.user = (userId, email, role) of the token while now < iat + 2 and is
\* answered 403 'Invalid or expired token' once now > iat + 2.
C4_TwoHourLifetime ==
    /\ (/\ resp.route \in {"POST /users/login", "GET /auth/github/callback"}
        /\ resp.token # <<>>) =>
            (resp.token[1].iat = now /\ resp.token[1].exp = now + 2)
    /\ \A t \in tokens :
         ("hdr" \in DOMAIN resp /\ resp.hdr = Bearer(t)) =>
            /\ now < t.iat + 2 =>
                  /\ "user" \in DOMAIN resp
                  /\ resp.user = [userId |-> t.userId, email |-> t.email, role |-> t.role]
            /\ now > t.iat + 2 =>
                  (resp.status = 403 /\ resp.error = "Invalid or expired token")

\* a request carrying a token is refused three hours after the token's issue
C4_RefusedAfterExpiry ==
    \E t \in tokens :
        /\ "hdr" \in DOMAIN resp /\ resp.hdr = Bearer(t)
        /\ now = t.iat + 3
        /\ resp.status = 403 /\ resp.error = "Invalid or expired token"

AdminRoutes == {"PATCH /users/:id/role", "GET /workouts/stats/:userId"}

CarolEmail == <<"c", "@ex.com">>
RoleLogins == TokenLogins \cup {<<CarolEmail, "p">>}
RegisterBodies ==
    {[firstName |-> <<"T">>, lastName |-> <<"U">>, email |-> CarolEmail, password |-> "p"],
     [firstName |-> <<"T">>, lastName |-> <<"U">>, email |-> CarolEmail, password |-> "p", role |-> <<"admin">>]}
PutBodies == {[email |-> <<>>, role |-> <<"admin">>]}
RoleProfiles == {p \in Profiles : p.id = "gh1"}

NextRoles ==
    \/ Ready /\ \E c \in RoleLogins : Login(c[1], c[2])
    \/ Ready /\ \E s \in Slots, b \in RegisterBodies : RegisterStart(s, b)
    \/ Ready /\ \E s \in Slots : RegisterInsert(s)
    \/ Ready /\ \E s \in Slots, p \in RoleProfiles : GithubStart(s, p)
    \/ Ready /\ \E s \in Slots : GithubByEmail(s)
    \/ Ready /\ \E s \in Slots : GithubInsert(s)
    \/ Ready /\ \E s \in Slots, h \in BearerHeaders, id \in UserIds, b \in PutBodies :
            PutUserStart(s, h, id, b)
    \/ Ready /\ \E s \in Slots : PutUserUpdate(s)
    \/ Ready /\ \E s \in Slots, h \in BearerHeaders, id \in UserIds, r \in Roles :
            PatchRoleStart(s, h, id, r)
    \/ Ready /\ \E s \in Slots : PatchRoleUpdate(s)
    \/ Ready /\ \E t \in tokens : Forget(t)
    \/ KeepToken
    \/ Flush
SpecRoles == InitToken /\ [][NextRoles]_vars

\* C11: an account is created with role 'user', whatever role the
\* registration body asks for and also when a GitHub login creates it; a
\* stored role changes only in a PATCH /users/:id/role answered 200 to a token
\* whose role claim is 'admin'; PUT /users/:id leaves every role as it was; a
\* PATCH with a token of another role is answered 403 and changes nothing.
C11_RoleOnlyByAdminPatch ==
    [][LET r == resp'
           kept == DOMAIN users \cap DOMAIN users'
       IN  /\ \A i \in DOMAIN users' \ DOMAIN users : users'[i].role = "user"
           /\ \A i \in kept :
                users'[i].role # users[i].role =>
                    /\ r.route = "PATCH /users/:id/role" /\ r.status = 200
                    /\ r.id = i /\ r.user.role = "admin"
           /\ r.route = "PUT /users/:id" =>
                \A i \in kept : users'[i].role = users[i].role
           /\ (r.route = "PATCH /users/:id/role" /\ "user" \in DOMAIN r
                 /\ r.user.role # "admin") =>
                (r.status = 403 /\ users' = users /\ reqs' = reqs)
      ]_vars

\* an account that registered asking for role 'admin' was stored as a user and
\* has now been promoted by an administrator's PATCH
C11_Promoted ==
    /\ resp.route = "PATCH /users/:id/role" /\ resp.status = 200
    /\ resp.id = 3 /\ resp.id \in DOMAIN users
    /\ users[3].password # <<>> /\ users[3].role = "admin"
    /\ resp.user.role = "admin"

\* C12: a PATCH /users/:id/role whose token has role 'admin' and names the
\* target itself, asking for any role other than 'admin', is never answered
\* 200 and changes no account: a stored role 'admin' stays 'admin'.
C12_NoSelfDemotion ==
    [][LET r == resp'
       IN  (r.route = "PATCH /users/:id/role" /\ "asked" \in DOMAIN r
              /\ r.user.role = "admin" /\ r.user.userId = r.id /\ r.asked # "admin") =>
                /\ r.status \in {400, 404}
                /\ users' = users
                /\ reqs' = reqs
      ]_vars

\* an administrator asked for its own demotion and was refused
C12_SelfDemotionRefused ==
    /\ resp.route = "PATCH /users/:id/role" /\ resp.status = 400
    /\ resp.error = "Cannot change your own admin role"
    /\ resp.asked = "user" /\ resp.user.userId = resp.id
    /\ resp.id \in DOMAIN users /\ users[resp.id].role = "admin"

C14_DeleteUserHidesExistence ==
    [][LET r == resp'
       IN  (r.route = "DELETE /users/:id" /\ "user" \in DOMAIN r) =>
             LET allowed == r.user.userId = r.id \/ r.user.role = "admin"
             IN  /\ ~allowed =>
                      /\ r.status = 403
                      /\ r.error = "Access denied. You can only delete your own account."
                      /\ users' = users /\ reqs' = reqs
                 /\ r.status = 404 => (allowed /\ r.error = "User not found")
      ]_vars

\* a user asked for the deletion of an account that is not stored: 403
C14_RefusedForMissing ==
    /\ resp.route = "DELETE /users/:id" /\ resp.status = 403
    /\ "user" \in DOMAIN resp
    /\ resp.id \notin DOMAIN users /\ ~resp.existed
    /\ resp.user.role = "user" /\ resp.user.userId # resp.id

\* C15: DELETE /workouts/:id called with a token that is neither the
\* workout's owner's nor an administrator's is answered 403, also when no
\* workout with that id is stored (then nobody owns it), and never 404.
C15_DeleteWorkoutHidesExistence ==
    (/\ resp.route = "DELETE /workouts/:id" /\ "user" \in DOMAIN resp
     /\ resp.user.role # "admin"
     /\ (resp.owner = <<>> \/ resp.owner[1] # resp.user.userId)) =>
        resp.status = 403

\* C16: GET and PUT on /users/:id and /workouts/:id answer 404 only to a
\* token that has passed the owner-or-admin check: a token that is neither
\* the owner's nor an administrator's is never answered 404.
C16_NotFoundOnlyAfterCheck ==
    LET r == resp
        owner == IF r.route \in {"GET /users/:id", "PUT /users/:id"}
                 THEN <<r.id>> ELSE r.owner
    IN  (/\ r.route \in {"GET /users/:id", "PUT /users/:id",
                         "GET /workouts/:id", "PUT /workouts/:id"}
         /\ "user" \in DOMAIN r
         /\ r.user.role # "admin"
         /\ (owner = <<>> \/ owner[1] # r.user.userId)) =>
            r.status # 404

\* ------------------------------------------------------------- visibility
\* C17: the account documents in the answers of the account list, the
\* single-account read, profile/me, login and the GitHub callback have no
\* password field, and the claims of an issued token are userId, email and
\* role (with the times and the signature), whoever calls.
C17_NoPasswordHash ==
    LET r == resp
        docs == IF "body" \notin DOMAIN r THEN {}
                ELSE IF r.route = "GET /users" THEN r.body
                ELSE {r.body[k] : k \in DOMAIN r.body}
    IN  r.route \in {"GET /users", "GET /users/:id", "GET /users/profile/me",
                     "POST /users/login", "GET /auth/github/callback"} =>
          /\ \A d \in docs : "password" \notin DOMAIN d
          /\ ("token" \in DOMAIN r /\ r.token # <<>>) =>
                DOMAIN r.token[1] = {"userId", "email", "role", "iat", "exp", "sig"}

\* the single-account read has answered with the document of an account that
\* has a password hash: the email is in it, the hash is not
C17_ReadWithHashStored ==
    /\ resp.route = "GET /users/:id" /\ resp.status = 200
    /\ resp.body # <<>>
    /\ resp.id \in DOMAIN users /\ users[resp.id].password # <<>>
    /\ resp.body[1].email = users[resp.id].email

\* C18: GET /users answers any authenticated caller, administrator or not,
\* with one document per stored account, each holding only fields among _id,
\* firstName, lastName, gender, createdAt and isTestUser with the stored
\* values: never email, role, the active flag or any other field.
C18_ListPublicFieldsOnly ==
    (resp.route = "GET /users" /\ resp.status = 200) =>
        /\ {d._id : d \in resp.body} = DOMAIN users
        /\ Cardinality(resp.body) = Cardinality(DOMAIN users)
        /\ \A d \in resp.body :
             /\ DOMAIN d \subseteq {"_id", "firstName", "lastName", "gender",
                                    "createdAt", "isTestUser"}
             /\ DOMAIN d \cap {"email", "dateOfBirth", "height", "weight", "role",
                               "emailVerified", "isActive", "password"} = {}
             /\ \A f \in DOMAIN d \ {"_id"} : d[f] = users[d._id][f]

\* a caller with role 'user' has listed the accounts, the administrator's
\* among them, and read first names
C18_ListedByUser ==
    /\ resp.route = "GET /users" /\ resp.status = 200
    /\ resp.user.role = "user"
    /\ \E d \in resp.body :
         /\ d._id # resp.user.userId /\ users[d._id].role = "admin"
         /\ "firstName" \in DOMAIN d

\* ------------------------------------------------------------- workouts
\* C19: GET /workouts called with a token whose role is not 'admin' lists
\* only workouts owned by the token's userId, whatever userId the query
\* string names; a list with another account's workout is answered only to
\* an administrator's token.
C19_ListOwnWorkoutsOnly ==
    (resp.route = "GET /workouts" /\ resp.status = 200) =>
        /\ resp.user.role # "admin" =>
             \A w \in resp.body : workouts[w].userId = resp.user.userId
        /\ (\E w \in resp.body : workouts[w].userId # resp.user.userId) =>
             resp.user.role = "admin"

\* a user asked for the workouts of another account, which has one, and got
\* only its own
C19_AskedForAnothers ==
    /\ resp.route = "GET /workouts" /\ resp.status = 200
    /\ resp.user.role = "user"
    /\ resp.query # <<>> /\ resp.query[1] # resp.user.userId
    /\ \E w \in DOMAIN workouts : workouts[w].userId = resp.query[1]
    /\ resp.body # {}

\* C20: POST /workouts admits a request (valid fields are assumed) only when
\* the declared owner is the token's userId or the token's role is 'admin'
\* and an account with the declared owner's id is stored at the lookup; a
\* request not so permitted is answered 403, one for a missing account 400,
\* and neither inserts anything; a workout is inserted only by an admitted
\* request, one at a time, for the declared owner and with the token's
\* userId as createdBy.
C20_CreateWorkoutRule ==
    [][LET r == resp'
           admitted == {s \in Slots : reqs'[s].op = "postWorkout"
                                        /\ reqs[s].op # "postWorkout"}
           inserted == DOMAIN workouts' \ DOMAIN workouts
       IN  /\ \A s \in admitted :
                LET q == reqs'[s]
                IN  /\ q.body.userId = q.user.userId \/ q.user.role = "admin"
                    /\ q.body.userId \in DOMAIN users
                    /\ workouts' = workouts
           /\ (r.route = "POST /workouts" /\ "user" \in DOMAIN r /\ r.status # 201) =>
                LET allowed == r.body.userId = r.user.userId \/ r.user.role = "admin"
                IN  /\ workouts' = workouts /\ reqs' = reqs
                    /\ ~allowed => r.status = 403
                    /\ allowed => (r.status = 400 /\ r.body.userId \notin DOMAIN users)
           /\ inserted # {} =>
                /\ r.route = "POST /workouts" /\ r.status = 201
                /\ inserted = {r.id}
                /\ \E s \in Slots : /\ reqs[s].op = "postWorkout"
                                    /\ reqs[s].body = r.body /\ reqs[s].user = r.user
                                    /\ reqs'[s] = Idle
                /\ workouts'[r.id].userId = r.body.userId
                /\ workouts'[r.id].createdBy = r.user.userId
                /\ \A w \in DOMAIN workouts : workouts'[w] = workouts[w]
           /\ (r.route = "POST /workouts" /\ r.status = 201) => inserted # {}
      ]_vars

\* an administrator has created a workout for another account: the owner is
\* the declared one, the creator the administrator
C20_CreatedForAnother ==
    /\ resp.route = "POST /workouts" /\ resp.status = 201
    /\ resp.user.role = "admin" /\ resp.body.userId # resp.user.userId
    /\ resp.id \in DOMAIN workouts
    /\ workouts[resp.id].userId = resp.body.userId
    /\ workouts[resp.id].createdBy = resp.user.userId

\* C21: the owner of a stored workout changes only in a PUT /workouts/:id
\* answered 200 to a token whose role is 'admin', and the new owner is a
\* stored account; a PUT with a token of another role that names an owner
\* other than the stored one is answered 403 and changes nothing.
C21_ReassignOnlyByAdmin ==
    [][LET r == resp'
       IN  /\ \A w \in DOMAIN workouts \cap DOMAIN workouts' :
                workouts'[w].userId # workouts[w].userId =>
                    /\ r.route = "PUT /workouts/:id" /\ r.status = 200 /\ r.id = w
                    /\ r.user.role = "admin"
                    /\ workouts'[w].userId \in DOMAIN users
           /\ (/\ r.route = "PUT /workouts/:id" /\ "body" \in DOMAIN r
               /\ r.existed /\ r.user.role # "admin"
               /\ r.body.userId # <<>> /\ r.body.userId[1] # r.owner[1]) =>
                 (r.status = 403 /\ workouts' = workouts /\ reqs' = reqs)
      ]_vars

\* ------------------------------------------------------------- scheme
\* C22: a request whose Authorization header does not begin with the scheme
\* Bearer (the bare token, or 'Token <jwt>') is answered 401, also when the
\* token in it is valid.
C22_OnlyBearerScheme ==
    ("hdr" \in DOMAIN resp /\ resp.hdr # Undefined /\ resp.hdr # <<>>
        /\ resp.hdr[1] # Wd("Bearer")) =>
            resp.status = 401

\* ------------------------------------------------------------- frame of PUT /users/:id
\* C23: the step that answers PUT /users/:id with 200 adds and removes no
\* account, leaves every other account as it was, and on the target sets
\* firstName and email (normalised) when the body has them and nothing else:
\* a field the body lacks keeps its value, and role, the active flag, the
\* password hash and the provider fields keep theirs even when the body
\* supplies them.
C23_PutUserFrame ==
    [][LET r == resp'
       IN  (r.route = "PUT /users/:id" /\ r.status = 200) =>
             /\ DOMAIN users' = DOMAIN users
             /\ r.id \in DOMAIN users
             /\ \A i \in DOMAIN users \ {r.id} : users'[i] = users[i]
             /\ DOMAIN users'[r.id] = DOMAIN users[r.id]
             /\ \A f \in DOMAIN users[r.id] :
                  IF f = "firstName" /\ Field(r.sent, f) # <<>>
                  THEN users'[r.id][f] = r.sent.firstName[1]
                  ELSE IF f = "email" /\ Field(r.sent, f) # <<>>
                  THEN users'[r.id][f] = normalizeEmail(r.sent.email[1])
                  ELSE users'[r.id][f] = users[r.id][f]
      ]_vars

\* a PUT whose body carried a first name and a password next to the email
\* has been answered 200: the first name is the new one, the stored hash is
\* not a hash of the password sent
C23_PartialUpdate ==
    /\ resp.route = "PUT /users/:id" /\ resp.status = 200
    /\ Field(resp.sent, "password") = <<"x">>
    /\ resp.id \in DOMAIN users
    /\ users[resp.id].firstName = <<"Z">>
    /\ users[resp.id].email = <<"c", "@ex.com">>
    /\ users[resp.id].password # bcryptHash("x")

\* ------------------------------------------------------------- federated login, repeated
\* C24: a federated login whose provider id is stored on an account is
\* answered at its first lookup with an account that holds the id, whatever
\* account has the profile's email, and writes nothing; the resolver goes on
\* to the email lookup only when no account holds the id; and the account a
\* login is answered with holds the provider id afterwards, so the same
\* login made again finds it and creates nothing.
C24_FoundByProviderId ==
    [][LET r == resp'
           Holders(g) == {i \in DOMAIN users : users[i].githubId = <<g>>}
       IN  /\ \A s \in Slots :
                (reqs'[s].op = "github" /\ reqs[s].op # "github") =>
                    Holders(reqs'[s].profile.id) = {}
           /\ (r.route = "GET /auth/github/callback" /\ r.how = "found") =>
                /\ r.id \in Holders(r.profile.id)
                /\ r.token[1].userId = r.id
                /\ store' = store /\ reqs' = reqs
           /\ (r.route = "GET /auth/github/callback" /\ r.id \in DOMAIN users') =>
                users'[r.id].githubId = <<r.profile.id>>
           /\ (r.route = "GET /auth/github/callback" /\ r.how = "created") =>
                (nextUserId' = nextUserId + 1 /\ DOMAIN users' = DOMAIN users \cup {r.id})
      ]_vars

\* a login has been answered from the provider id although the profile's
\* email is now the email of another account
C24_FoundDespiteEmail ==
    /\ resp.route = "GET /auth/github/callback" /\ resp.how = "found"
    /\ resp.profile.emails # <<>>
    /\ resp.id \in DOMAIN users
    /\ users[resp.id].email # toLowerCase(resp.profile.emails[1])
    /\ \E j \in DOMAIN users :
         j # resp.id /\ users[j].email = toLowerCase(resp.profile.emails[1])

\* C25: a federated login that found no account at its two lookups inserts
\* its account without looking again: the step answering a created login
\* adds exactly one account with the profile's id and derived email, also
\* when a concurrent login of the same identity has inserted one in between,
\* which leaves two accounts with the same provider id and email.
C25_InsertWithoutRecheck ==
    [][LET r == resp'
       IN  (r.route = "GET /auth/github/callback" /\ r.how = "created") =>
             /\ r.id \notin DOMAIN users
             /\ DOMAIN users' = DOMAIN users \cup {r.id}
             /\ users'[r.id].githubId = <<r.profile.id>>
             /\ users'[r.id].email = GithubEmail(r.profile)
             /\ \A i \in DOMAIN users : users'[i] = users[i]
      ]_vars

\* two first-time logins of the same identity have both inserted: two
\* accounts without password hold the same provider id and the same email
C25_TwoAccountsOneIdentity ==
    /\ resp.route = "GET /auth/github/callback" /\ resp.how = "created"
    /\ \E i, j \in DOMAIN users :
         /\ i # j /\ j = resp.id
         /\ users[i].githubId = <<resp.profile.id>> /\ users[j].githubId = <<resp.profile.id>>
         /\ users[i].email = users[j].email
         /\ users[i].password = <<>> /\ users[j].password = <<>>

\* C26: a federated login matching no account by provider id or by derived
\* email inserts exactly one account whose first name is the display name's
\* text before its first space, whose last name is the whole remainder after
\* that space (empty when there is none), whose email is the derived one,
\* with role 'user', emailVerified and active set, and the provider id and
\* username attached.
C26_CreatedAccountFields ==
    [][LET r == resp'
           name == r.profile.displayName
           spaces == {k \in 1..Len(name) : name[k] = " "}
           first == IF spaces = {} THEN Len(name) + 1
                    ELSE CHOOSE k \in spaces : \A m \in spaces : k <= m
       IN  (r.route = "GET /auth/github/callback" /\ r.how = "created") =>
             /\ DOMAIN users' = DOMAIN users \cup {r.id}
             /\ r.id \notin DOMAIN users
             /\ \A i \in DOMAIN users : users'[i] = users[i]
             /\ users'[r.id].firstName = SubSeq(name, 1, first - 1)
             /\ users'[r.id].lastName = SubSeq(name, first + 1, Len(name))
             /\ users'[r.id].email =
                  (IF r.profile.emails # <<>> THEN toLowerCase(r.profile.emails[1])
                   ELSE r.profile.username \o <<"@github.local">>)
             /\ users'[r.id].role = "user"
             /\ users'[r.id].emailVerified
             /\ users'[r.id].isActive
             /\ users'[r.id].githubId = <<r.profile.id>>
             /\ users'[r.id].githubUsername = r.profile.username
      ]_vars

\* C27: of several authorized DELETE /users/:id requests for the same
\* account exactly one is answered 200: every 200 belongs to the step that
\* removed the account, so a delete of an account already removed, whether
\* concurrent or repeated, is never answered 200.
C27_OneDeleteSucceeds ==
    [][LET r == resp'
       IN  (r.route = "DELETE /users/:id" /\ r.status = 200) =>
             /\ r.id \in DOMAIN users
             /\ r.id \notin DOMAIN users'
      ]_vars

\* C28: an account that has a provider id attached keeps it: no step of a
\* federated login replaces a stored provider id by a different one, linking
\* by email being done only onto accounts without a provider id.
C28_ProviderIdKept ==
    [][\A i \in DOMAIN users :
         (users[i].githubId # <<>> /\ i \in DOMAIN users') =>
           users'[i].githubId = users[i].githubId
      ]_vars

\* C29: the store having an account with role 'admin', it still has one
\* after any sequence of PATCH /users/:id/role requests, those sent with
\* tokens issued before an earlier role change included.
C29_SomeAdminRemains ==
    \E i \in DOMAIN users : users[i].role = "admin"

====
